---- MODULE Spec2Model ----
(***************************************************************************)
(* The Heap Builder (src/script.js): an array-backed binary heap, Max or   *)
(* Min, whose mutating operations are async functions that suspend at      *)
(* sleep() and are serialised by the global flag isAnimating.              *)
(*                                                                         *)
(* JavaScript runs every piece of code between two awaited timers to       *)
(* completion before any other event handler or timer callback runs, so    *)
(* one action of this model is one such run: a handler from its start to   *)
(* its first sleep() (or its return), or the resumption of a suspended     *)
(* operation from one sleep() to the next (or to its end, which includes   *)
(* the continuation of the handler that awaited it).  An await of a        *)
(* promise that needs no timer only defers to a microtask, which runs      *)
(* before any event, so it is not a point where another handler can run.   *)
(***************************************************************************)
EXTENDS Integers, Sequences, FiniteSets, TLC

(***************************************************************************)
(* Bounds of the model.                                                    *)
(***************************************************************************)
\* the values typed into the page are 0..MaxVal (and a few invalid texts)
MaxVal == 1
\* Insert is offered while the heap holds at most MaxSize keys, and the
\* arrays loaded into the empty heap are all those of at most MaxSize values
MaxSize == 3

(***************************************************************************)
(* Program constants.                                                      *)
(***************************************************************************)
ANIMATION_DELAY == 500
NODE_RADIUS == 20
LEVEL_HEIGHT == 80
MIN_NODE_SPACING == 60
\* the pause of swap() between the highlight and the move
SETTLE_DELAY == 100
\* the largest value insertElement accepts
MAX_INSERT == 999
\* y of the root in calculateNodePositions
TOP_MARGIN == 50

(***************************************************************************)
(* Indexing math (1-based).                                                *)
(***************************************************************************)
parent(index) == index \div 2
left_child(index) == 2 * index
right_child(index) == 2 * index + 1

(***************************************************************************)
(* State.                                                                  *)
(***************************************************************************)
VARIABLES
    heap,             \* currentHeap.heap without its sentinel: heap[i] is this.heap[i]
    currentHeapType,  \* "MaxHeap" or "MinHeap"; currentHeap is an instance of that class
    isAnimating,      \* the busy flag
    positions,        \* positions[i] = [x, y] for the indices laid out
    nodes,            \* the children of nodeContainer, by the index in their id node-<i>
    arrayDisplay,     \* the values shown by heapArrayDisplay
    canvas,           \* the canvas: its width and the edges drawn on it
    extractBtn,       \* the text of the extract button
    message,          \* what the latest run showed with showMessage
    tasks,            \* the suspended async operations, each at its sleep()
    result,           \* the engine method a direct caller called last, and its value
    steps,            \* the renderer calls and pauses of the operation in flight
    rt,               \* the values of the last load and what was extracted since
    owned             \* every write to the storage so far was made with the flag set

vars == <<heap, currentHeapType, isAnimating, positions, nodes, arrayDisplay,
          canvas, extractBtn, message, tasks, result, steps, rt, owned>>

(***************************************************************************)
(* The program state as one record, threaded through the operators below.  *)
(* An operator that models a function of script.js maps the state before   *)
(* the call to the state after it.  containerWidth is what                 *)
(* scrollContainer.offsetWidth reads during the run: the browser sets it,  *)
(* so it is an input of every run.  The message box is modelled for the    *)
(* run that writes it: a toast fades on its own timer (lines 313-316) and  *)
(* no code reads it, so a run starts with none.                            *)
(***************************************************************************)
Message(kind, isError) == [kind |-> kind, isError |-> isError]
NoMessage == Message("", FALSE)

StIn(width) ==
    [heap |-> heap, currentHeapType |-> currentHeapType, isAnimating |-> isAnimating,
     positions |-> positions, nodes |-> nodes, arrayDisplay |-> arrayDisplay,
     canvas |-> canvas, containerWidth |-> width, extractBtn |-> extractBtn,
     message |-> NoMessage, result |-> result, steps |-> steps, rt |-> rt,
     owned |-> owned]

\* one call of the renderer (or one pause) observed by the step sink
Step(op, i, j, tag) == [op |-> op, i |-> i, j |-> j, tag |-> tag]
Emit(s, e) == [s EXCEPT !.steps = Append(@, e)]

\* s is the state right after a write to the storage (a slot, the length)
\* or to currentHeap / currentHeapType: the write is noted as made with the
\* busy flag set, or without it
written(s) == [s EXCEPT !.owned = @ /\ s.isAnimating]

EmptyFn == [x \in {} |-> 0]

(***************************************************************************)
(* Values returned by the engine methods.                                  *)
(***************************************************************************)
Undefined == [tag |-> "undefined", success |-> FALSE, isNull |-> FALSE, value |-> 0]
Null == [tag |-> "null", success |-> FALSE, isNull |-> TRUE, value |-> 0]
Number(v) == [tag |-> "number", success |-> FALSE, isNull |-> FALSE, value |-> v]
\* { success: false, value: null }
DeleteFailed == [tag |-> "object", success |-> FALSE, isNull |-> TRUE, value |-> 0]
\* { success: true, value: v }
DeleteOk(v) == [tag |-> "object", success |-> TRUE, isNull |-> FALSE, value |-> v]

\* what the variable result holds: the method called last and what it returned
NoResult == [of |-> "", val |-> Undefined]
Result(method, v) == [of |-> method, val |-> v]

(***************************************************************************)
(* UI helpers.                                                             *)
(***************************************************************************)
\* showMessage(text, isError): the text is kept by its kind, without the
\* numbers and names spliced into it
showMessage(s, kind, isError) == [s EXCEPT !.message = Message(kind, isError)]

highlightNode(s, index, type) ==
    LET s1 == Emit(s, Step("highlight", index, 0, type))
    IN  IF index \in DOMAIN s.nodes
        THEN [s1 EXCEPT !.nodes[index].hl = @ \cup {type}]
        ELSE s1

unhighlightNode(s, index) ==
    LET s1 == Emit(s, Step("unhighlight", index, 0, ""))
    IN  IF index \in DOMAIN s.nodes
        THEN [s1 EXCEPT !.nodes[index].hl = @ \ {"insert", "swap", "extract"}]
        ELSE s1

(***************************************************************************)
(* Geometry and layout.                                                    *)
(***************************************************************************)
RECURSIVE Pow2(_)
Pow2(n) == IF n <= 0 THEN 1 ELSE 2 * Pow2(n - 1)

\* Math.floor(Math.log2(n)) for n >= 1
RECURSIVE FloorLog2(_)
FloorLog2(n) == IF n <= 1 THEN 0 ELSE 1 + FloorLog2(n \div 2)

\* traverse_v2: the positions of the subtree of index, for a heap of n keys.
\* The widths of this model are multiples of 2 * maxLeaves, so the halvings
\* of the source are exact in integers for every index that is placed.
RECURSIVE traverse_v2(_, _, _, _, _)
traverse_v2(n, index, level, x, horizontal_offset) ==
    IF index >= n + 1
    THEN EmptyFn
    ELSE LET y == TOP_MARGIN + (level * LEVEL_HEIGHT)
             next_h_offset == horizontal_offset \div 2
         IN  (index :> [x |-> x, y |-> y])
             @@ traverse_v2(n, left_child(index), level + 1,
                            x - horizontal_offset, next_h_offset)
             @@ traverse_v2(n, right_child(index), level + 1,
                            x + horizontal_offset, next_h_offset)

calculateNodePositions(s, width) ==
    LET size == Len(s.heap)
    IN  IF size <= 0
        THEN [s EXCEPT !.positions = EmptyFn]
        ELSE [s EXCEPT !.positions = traverse_v2(size, 1, 0, width \div 2, width \div 4)]

(***************************************************************************)
(* Rendering.                                                              *)
(***************************************************************************)
drawEdges(s) ==
    LET drawn == {i \in 1..Len(s.heap) :
                     i > 1 /\ i \in DOMAIN s.positions /\ parent(i) \in DOMAIN s.positions}
    IN  [s EXCEPT !.canvas.edges =
            {[x1 |-> s.positions[parent(i)].x, y1 |-> s.positions[parent(i)].y + NODE_RADIUS,
              x2 |-> s.positions[i].x, y2 |-> s.positions[i].y - NODE_RADIUS] : i \in drawn}]

updateArrayDisplay(s) ==
    Emit([s EXCEPT !.arrayDisplay = s.heap], Step("updateArrayDisplay", 0, 0, ""))

\* renderNodes: a node per laid-out index, reusing the node that already has
\* the id (its highlight classes are kept), and removal of every other node.
renderNodes(s) ==
    LET existingNodeIds == {i \in 1..Len(s.heap) : i \in DOMAIN s.positions}
        render(i) ==
            [text |-> s.heap[i],
             left |-> s.positions[i].x - NODE_RADIUS,
             top |-> s.positions[i].y - NODE_RADIUS,
             title |-> i,
             hl |-> IF i \in DOMAIN s.nodes THEN s.nodes[i].hl ELSE {},
             root |-> (i = 1)]
    IN  [s EXCEPT !.nodes = [i \in existingNodeIds |-> render(i)]]

\* updateVisualization(true); every call of the source recalculates positions
updateVisualization(s) ==
    LET s0 == Emit(s, Step("updateVisualization", 0, 0, ""))
        s1 == updateArrayDisplay(s0)
        size == Len(s1.heap)
        depth == IF size > 0 THEN FloorLog2(size) + 1 ELSE 1
        maxLeaves == Pow2(depth - 1)
        spaced == (maxLeaves * MIN_NODE_SPACING * 3) \div 2
        containerW == s1.containerWidth
        neededWidth == IF containerW >= spaced THEN containerW ELSE spaced
        s2 == [s1 EXCEPT !.canvas.width = neededWidth]
        s3 == calculateNodePositions(s2, neededWidth)
    IN  renderNodes(drawEdges(s3))

(***************************************************************************)
(* Suspended operations.  A task is an async call chain parked at one      *)
(* sleep(); its fields are the locals that are live across that sleep.     *)
(***************************************************************************)
NoPos == [def |-> FALSE, x |-> 0, y |-> 0]
PosOf(s, i) ==
    IF i \in DOMAIN s.positions
    THEN [def |-> TRUE, x |-> s.positions[i].x, y |-> s.positions[i].y]
    ELSE NoPos

\* op: the operation; ui: started by a handler, which awaits it; pc: the
\* sleep it is parked at; mode: what awaits the swap in progress; i, j,
\* hasI, hasJ, posI, posJ: the locals of swap(); index: the index that insert
\* highlighted or deleteAtIndex was given; k: the loop index of the build
\* loop; value: the value captured for the return; arg: the value given;
\* pre, preType: the storage and variant at the call.
NewTask(op, ui, s) ==
    [op |-> op, ui |-> ui, pc |-> "", mode |-> "", i |-> 0, j |-> 0,
     hasI |-> FALSE, hasJ |-> FALSE, posI |-> NoPos, posJ |-> NoPos,
     index |-> 0, k |-> 0, value |-> 0, arg |-> 0,
     pre |-> s.heap, preType |-> s.currentHeapType]

\* the outcome of one run: the state, and the task if it parked again
Parked(s, t) == [s |-> s, task |-> <<t>>]
Returned(s) == [s |-> s, task |-> <<>>]

\* await sleep(ms)
sleep(s, t, ms, pc) == Parked(Emit(s, Step("sleep", ms, 0, "")), [t EXCEPT !.pc = pc])

\* pop() that leaves the array as long as it was; SizeAccounting does not
\* hold of it
popKeepsLast(h) == h

\* this.heap.pop(), for what it leaves in the array
pop(h) == SubSeq(h, 1, Len(h) - 1)

\* peek() that takes a heap of one key for an empty one; PeekReadsRoot does
\* not hold of it
peekOffByOne(s) == IF Len(s.heap) + 1 > 2 THEN Number(s.heap[1]) ELSE Null

peek(s) == IF Len(s.heap) + 1 > 1 THEN Number(s.heap[1]) ELSE Null
isEmpty(s) == Len(s.heap) + 1 <= 1

(***************************************************************************)
(* The two variants.  MaxHeap and MinHeap hold the same code with the      *)
(* comparisons mirrored; currentHeap is always an instance of the class    *)
(* that currentHeapType names (lines 21/569, 518-520, 544-548).            *)
(***************************************************************************)
\* heap[a] is strictly more extreme than heap[b]: > for MaxHeap, < for MinHeap
moreExtreme(s, a, b) ==
    IF s.currentHeapType = "MaxHeap" THEN s.heap[a] > s.heap[b] ELSE s.heap[a] < s.heap[b]

\* a sift-up test that also takes an equal parent for a wrong one;
\* InsertSiftsUpStrictly does not hold of it
parentWrongOrEqual(s, parentIndex, index) == ~moreExtreme(s, parentIndex, index)

\* the test of the sift-up loops: the parent is on the wrong side of the child
parentWrong(s, parentIndex, index) == moreExtreme(s, index, parentIndex)

\* heapifyChoice that never looks at the right child; HeapOrderWhenIdle does
\* not hold of it
heapifyChoiceLeftOnly(s, index) ==
    LET left == left_child(index)
        n == Len(s.heap) + 1
    IN  IF left < n /\ moreExtreme(s, left, index) THEN left ELSE index

\* heapifyChoice that lets a right child take the place of an equal choice;
\* SiftDownChoosesLeftFirst does not hold of it
heapifyChoiceRightOnTie(s, index) ==
    LET left == left_child(index)
        right == right_child(index)
        n == Len(s.heap) + 1
        c1 == IF left < n /\ moreExtreme(s, left, index) THEN left ELSE index
        c2 == IF right < n /\ ~moreExtreme(s, c1, right) THEN right ELSE c1
    IN  c2

\* largest / smallest of heapify(index)
heapifyChoice(s, index) ==
    LET left == left_child(index)
        right == right_child(index)
        n == Len(s.heap) + 1
        c1 == IF left < n /\ moreExtreme(s, left, index) THEN left ELSE index
        c2 == IF right < n /\ moreExtreme(s, right, c1) THEN right ELSE c1
    IN  c2

(***************************************************************************)
(* swap(i, j), in its three runs.                                          *)
(***************************************************************************)
\* lines 47-60: fetch the nodes and positions, highlight, pause
swapBegin(s, t, i, j) ==
    LET hasI == i \in DOMAIN s.nodes
        hasJ == j \in DOMAIN s.nodes
        s1 == IF hasI THEN highlightNode(s, i, "swap") ELSE s
        s2 == IF hasJ THEN highlightNode(s1, j, "swap") ELSE s1
        t1 == [t EXCEPT !.i = i, !.j = j, !.hasI = hasI, !.hasJ = hasJ,
                        !.posI = PosOf(s, i), !.posJ = PosOf(s, j)]
    IN  sleep(s2, t1, SETTLE_DELAY, "settle")

\* swapMove that exchanges the two slots before the transition pause;
\* SwapStepsInOrder does not hold of it
swapMoveExchangesEarly(s, t) ==
    LET s1 == [s EXCEPT
                  !.nodes[t.i].left = t.posJ.x - NODE_RADIUS,
                  !.nodes[t.i].top = t.posJ.y - NODE_RADIUS,
                  !.nodes[t.j].left = t.posI.x - NODE_RADIUS,
                  !.nodes[t.j].top = t.posI.y - NODE_RADIUS]
        s2 == Emit(s1, Step("move", t.i, t.j, ""))
        s3 == Emit(written([s2 EXCEPT !.heap[t.i] = s.heap[t.j], !.heap[t.j] = s.heap[t.i]]),
                   Step("swapStorage", t.i, t.j, ""))
    IN  sleep(s3, t, ANIMATION_DELAY, "transition")

\* lines 62-74: move the two nodes to each other's position, pause.  Reading
\* .x of a missing position throws: the operation ends there, rejected.
swapMove(s, t) ==
    IF t.hasI /\ t.hasJ
    THEN IF t.posI.def /\ t.posJ.def
         THEN LET s1 == [s EXCEPT
                            !.nodes[t.i].left = t.posJ.x - NODE_RADIUS,
                            !.nodes[t.i].top = t.posJ.y - NODE_RADIUS,
                            !.nodes[t.j].left = t.posI.x - NODE_RADIUS,
                            !.nodes[t.j].top = t.posI.y - NODE_RADIUS]
              IN  sleep(Emit(s1, Step("move", t.i, t.j, "")), t, ANIMATION_DELAY, "transition")
         ELSE Returned(s)
    ELSE sleep(s, t, ANIMATION_DELAY, "transition")

\* swapCommit that copies slot j into slot i and leaves slot j as it was;
\* DeleteReturnsSlot does not hold of it
swapCommitOneWay(s, t) ==
    LET s1 == Emit(written([s EXCEPT !.heap[t.i] = s.heap[t.j]]), Step("swapStorage", t.i, t.j, ""))
        s3 == updateArrayDisplay(s1)
    IN  unhighlightNode(unhighlightNode(s3, t.i), t.j)

\* swapCommit that exchanges the two slots and leaves the ids of the two
\* nodes as they were; NodesFollowIndices does not hold of it
swapCommitNoRelabel(s, t) ==
    LET s1 == Emit(written([s EXCEPT !.heap[t.i] = s.heap[t.j], !.heap[t.j] = s.heap[t.i]]),
                   Step("swapStorage", t.i, t.j, ""))
        s3 == updateArrayDisplay(s1)
    IN  unhighlightNode(unhighlightNode(s3, t.i), t.j)

\* lines 76-95: exchange the two slots, exchange the ids (and titles) of the
\* two nodes, refresh the array text, clear the highlights
swapCommit(s, t) ==
    LET s1 == Emit(written([s EXCEPT !.heap[t.i] = s.heap[t.j], !.heap[t.j] = s.heap[t.i]]),
                   Step("swapStorage", t.i, t.j, ""))
        s2 == IF t.hasI /\ t.hasJ
              THEN Emit([s1 EXCEPT
                            !.nodes[t.j] = [s1.nodes[t.i] EXCEPT !.title = s1.nodes[t.j].title],
                            !.nodes[t.i] = [s1.nodes[t.j] EXCEPT !.title = s1.nodes[t.i].title]],
                        Step("relabel", t.i, t.j, ""))
              ELSE s1
        s3 == updateArrayDisplay(s2)
    IN  unhighlightNode(unhighlightNode(s3, t.i), t.j)

(***************************************************************************)
(* Bookkeeping for stating properties; the program does not read it.  A    *)
(* task remembers the storage and the variant its operation found (pre,    *)
(* preType).  steps is the log of the operation in flight.  rt holds the   *)
(* values of the last load and the values extracted since, while nothing   *)
(* but extractions followed that load.                                     *)
(***************************************************************************)
RtOff == [on |-> FALSE, values |-> <<>>, out |-> <<>>]

\* an engine operation is called: the step log starts afresh
called(s, op) ==
    [s EXCEPT !.steps = <<>>,
              !.rt = IF op = "extract" THEN @ ELSE RtOff]

\* extract() returned v
extracted(s, v) ==
    [s EXCEPT !.rt = IF @.on THEN [@ EXCEPT !.out = Append(@, v)] ELSE @]

\* the value returned goes to the direct caller; a handler consumes it
returns(s, t, v) == IF t.ui THEN s ELSE [s EXCEPT !.result = Result(t.op, v)]

(***************************************************************************)
(* The ends of the operations: the flag is cleared, the visualization is   *)
(* refreshed and the method returns; the handler that awaited it then      *)
(* reports.  (The handlers also reset their input fields; the texts typed  *)
(* are inputs of the actions, drawn afresh at every call.)                 *)
(***************************************************************************)
\* an end of insert that leaves the flag set; OperationsTerminate does not
\* hold of it
insertEndKeepsFlag(s, t) ==
    LET s1 == updateVisualization(s)
        s2 == returns(s1, t, Undefined)
    IN  Returned(IF t.ui THEN showMessage(s2, "Inserted", FALSE) ELSE s2)

\* lines 156-157 / 241-242, then 475-477
insertEnd(s, t) ==
    LET s1 == updateVisualization([s EXCEPT !.isAnimating = FALSE])
        s2 == returns(s1, t, Undefined)
    IN  Returned(IF t.ui THEN showMessage(s2, "Inserted", FALSE) ELSE s2)

\* lines 192-194 / 276-278, then 484
extractEnd(s, t) ==
    LET s1 == updateVisualization([s EXCEPT !.isAnimating = FALSE])
        s2 == extracted(returns(s1, t, Number(t.value)), t.value)
    IN  Returned(IF t.ui THEN showMessage(s2, "Extracted", FALSE) ELSE s2)

\* an end of deleteAtIndex that clears the flag and returns without the
\* refresh; RefreshedWhenIdle does not hold of it
deleteEndNoRefresh(s, t) ==
    LET s1 == [s EXCEPT !.isAnimating = FALSE]
        s2 == returns(s1, t, DeleteOk(t.value))
    IN  Returned(IF t.ui THEN showMessage(s2, "Deleted", FALSE) ELSE s2)

\* lines 114-116 and 128-130, then 502-508
deleteEnd(s, t) ==
    LET s1 == updateVisualization([s EXCEPT !.isAnimating = FALSE])
        s2 == returns(s1, t, DeleteOk(t.value))
    IN  Returned(IF t.ui THEN showMessage(s2, "Deleted", FALSE) ELSE s2)

\* lines 532-534
loadEnd(s, t) ==
    LET s1 == updateVisualization([s EXCEPT !.isAnimating = FALSE])
    IN  Returned(showMessage(s1, "Built", FALSE))

\* lines 557-560
typeEnd(s, t) ==
    LET s0 == [s EXCEPT !.extractBtn =
                  IF s.currentHeapType = "MaxHeap" THEN "Extract Max" ELSE "Extract Min"]
        s1 == updateVisualization([s0 EXCEPT !.isAnimating = FALSE])
    IN  Returned(showMessage(s1, "Switched", FALSE))

(***************************************************************************)
(* Sift-down, sift-up and what follows them, up to the next sleep.         *)
(***************************************************************************)
RECURSIVE heapify(_, _, _)
RECURSIVE buildLoop(_, _, _)

\* what runs when the outermost heapify of the task returns
afterHeapify(s, t) ==
    CASE t.op = "extract" -> extractEnd(s, t)
      [] t.op = "delete" -> deleteEnd(s, t)
      [] t.op = "load" -> buildLoop(s, t, t.k - 1)
      [] t.op = "type" -> buildLoop(s, t, t.k - 1)

\* heapify(index), lines 160-173 / 245-258; its recursive call is its last
\* statement, so the returns of the nested calls do nothing more
heapify(s, t, index) ==
    LET largest == heapifyChoice(s, index)
    IN  IF largest # index
        THEN swapBegin(s, [t EXCEPT !.mode = "down"], index, largest)
        ELSE afterHeapify(s, t)

\* for (let i = ...; i >= 1; i--) await heapify(i), lines 528-530 / 553-555
buildLoop(s, t, i) ==
    IF i >= 1
    THEN heapify(s, [t EXCEPT !.k = i], i)
    ELSE IF t.op = "load" THEN loadEnd(s, t) ELSE typeEnd(s, t)

\* the sift-up loop of insert (149-155 / 234-240) and of restoreHeap
\* (205-211 / 289-295), entered with the current index
siftUpLoop(s, t, index) ==
    IF index > 1 /\ parentWrong(s, parent(index), index)
    THEN swapBegin(s, [t EXCEPT !.mode = "up"], parent(index), index)
    ELSE IF t.op = "insert" THEN insertEnd(s, t) ELSE deleteEnd(s, t)

\* restoreHeap that only ever sifts up; DeleteRootIsExtract does not hold
\* of it
restoreHeapUpOnly(s, t, index) == siftUpLoop(s, t, index)

\* restoreHeap that sifts down whatever the parent holds;
\* DeleteRestoresOneWay does not hold of it
restoreHeapDownOnly(s, t, index) == heapify(s, t, index)

\* restoreHeap(index), lines 198-216 / 282-300
restoreHeap(s, t, index) ==
    LET currentIndex == index
        parentIndex == parent(currentIndex)
    IN  IF currentIndex > 1 /\ parentWrong(s, parentIndex, currentIndex)
        THEN siftUpLoop(s, t, currentIndex)
        ELSE heapify(s, t, index)

\* the caller of swap() after swap() returned
afterSwap(s, t) ==
    CASE t.mode = "up" -> siftUpLoop(s, t, t.i)
      [] t.mode = "down" -> heapify(s, t, t.j)
      [] t.mode = "first" -> restoreHeap(written([s EXCEPT !.heap = pop(s.heap)]), t, t.i)

(***************************************************************************)
(* The engine methods, from their call to their first sleep or return.     *)
(***************************************************************************)
\* insert without the refresh that follows the push; InsertExtractStepFrame
\* does not hold of it
insertNoFirstRefresh(s, t, value) ==
    LET s0 == called(s, "insert")
        s1 == written([s0 EXCEPT !.isAnimating = TRUE, !.heap = Append(@, value)])
        index == Len(s1.heap) + 1 - 1
        s3 == highlightNode(s1, index, "insert")
    IN  sleep(s3, [t EXCEPT !.index = index, !.arg = value], ANIMATION_DELAY, "insert_hl")

\* insert(value), lines 139-146 / 224-231
insert(s, t, value) ==
    LET s0 == called(s, "insert")
        s1 == written([s0 EXCEPT !.isAnimating = TRUE, !.heap = Append(@, value)])
        index == Len(s1.heap) + 1 - 1
        s2 == updateVisualization(s1)
        s3 == highlightNode(s2, index, "insert")
    IN  sleep(s3, [t EXCEPT !.index = index, !.arg = value], ANIMATION_DELAY, "insert_hl")

\* insert after its pause, lines 147-155 / 232-240
insertResume(s, t) == siftUpLoop(unhighlightNode(s, t.index), t, t.index)

\* extract that captures the last key instead of the root;
\* ExtractReturnsRoot does not hold of it
extractTakesLast(s, t) ==
    LET s0 == called(s, "extract")
    IN  IF isEmpty(s0)
        THEN LET s1 == returns(s0, t, Null)
             IN  Returned(IF t.ui THEN showMessage(s1, "Extracted", FALSE) ELSE s1)
        ELSE LET s1 == [s0 EXCEPT !.isAnimating = TRUE]
                 maxValue == s1.heap[Len(s1.heap)]
                 s2 == highlightNode(s1, 1, "extract")
             IN  sleep(s2, [t EXCEPT !.value = maxValue], ANIMATION_DELAY * 2, "extract_hl")

\* extract that sets the busy flag before it looks at the size;
\* ExtractOnEmpty does not hold of it
extractFlagFirst(s, t) ==
    LET s0 == [called(s, "extract") EXCEPT !.isAnimating = TRUE]
    IN  IF isEmpty(s0)
        THEN LET s1 == returns(s0, t, Null)
             IN  Returned(IF t.ui THEN showMessage(s1, "Extracted", FALSE) ELSE s1)
        ELSE LET maxValue == s0.heap[1]
                 s2 == highlightNode(s0, 1, "extract")
             IN  sleep(s2, [t EXCEPT !.value = maxValue], ANIMATION_DELAY * 2, "extract_hl")

\* extract(), lines 175-181 / 260-266
extract(s, t) ==
    LET s0 == called(s, "extract")
    IN  IF isEmpty(s0)
        THEN LET s1 == returns(s0, t, Null)
             IN  Returned(IF t.ui THEN showMessage(s1, "Extracted", FALSE) ELSE s1)
        ELSE LET s1 == [s0 EXCEPT !.isAnimating = TRUE]
                 maxValue == s1.heap[1]
                 s2 == highlightNode(s1, 1, "extract")
             IN  sleep(s2, [t EXCEPT !.value = maxValue], ANIMATION_DELAY * 2, "extract_hl")

\* extract that moves the last key into the root and returns without the
\* sift-down; LoadThenExtractSorts does not hold of it
extractResumeNoSiftDown(s, t) ==
    IF Len(s.heap) + 1 = 2
    THEN extractEnd(written([s EXCEPT !.heap = pop(@)]), t)
    ELSE LET last == s.heap[Len(s.heap)]
             s1 == written([s EXCEPT !.heap = [pop(@) EXCEPT ![1] = last]])
         IN  extractEnd(updateVisualization(s1), t)

\* extract after its pause, lines 183-190 / 268-274
extractResume(s, t) ==
    IF Len(s.heap) + 1 = 2
    THEN extractEnd(written([s EXCEPT !.heap = pop(@)]), t)
    ELSE LET last == s.heap[Len(s.heap)]
             s1 == written([s EXCEPT !.heap = [pop(@) EXCEPT ![1] = last]])
         IN  heapify(updateVisualization(s1), t, 1)

\* deleteAtIndex that sets the busy flag before it validates the index;
\* DeleteOutOfRange does not hold of it
deleteAtIndexFlagFirst(s, t, index) ==
    LET s0 == [called(s, "delete") EXCEPT !.isAnimating = TRUE]
        size == Len(s0.heap) + 1 - 1
    IN  IF index < 1 \/ index > size
        THEN LET s1 == returns(s0, t, DeleteFailed)
             IN  Returned(IF t.ui THEN showMessage(s1, "Could not delete", TRUE) ELSE s1)
        ELSE LET deletedValue == s0.heap[index]
                 t1 == [t EXCEPT !.index = index, !.value = deletedValue]
             IN  IF index = size
                 THEN deleteEnd(written([s0 EXCEPT !.heap = pop(@)]), t1)
                 ELSE swapBegin(s0, [t1 EXCEPT !.mode = "first"], index, size)

\* deleteAtIndex(index), lines 102-120
deleteAtIndex(s, t, index) ==
    LET s0 == called(s, "delete")
        size == Len(s0.heap) + 1 - 1
    IN  IF index < 1 \/ index > size
        THEN LET s1 == returns(s0, t, DeleteFailed)
             IN  Returned(IF t.ui THEN showMessage(s1, "Could not delete", TRUE) ELSE s1)
        ELSE LET s1 == [s0 EXCEPT !.isAnimating = TRUE]
                 deletedValue == s1.heap[index]
                 t1 == [t EXCEPT !.index = index, !.value = deletedValue]
             IN  IF index = size
                 THEN deleteEnd(written([s1 EXCEPT !.heap = pop(@)]), t1)
                 ELSE swapBegin(s1, [t1 EXCEPT !.mode = "first"], index, size)

\* the run of a task whose timer fired
resume(s, t) ==
    CASE t.pc = "insert_hl" -> insertResume(s, t)
      [] t.pc = "extract_hl" -> extractResume(s, t)
      [] t.pc = "load_pause" -> buildLoop(s, t, parent(Len(s.heap) + 1 - 1))
      [] t.pc = "settle" -> swapMove(s, t)
      [] t.pc = "transition" -> afterSwap(swapCommit(s, t), t)

(***************************************************************************)
(* The texts the user types, and parseInt.                                 *)
(***************************************************************************)
DigitChar == <<"0", "1", "2", "3", "4", "5", "6", "7", "8", "9">>
IsDigit(c) == \E d \in 1..Len(DigitChar) : DigitChar[d] = c
DigitVal(c) == (CHOOSE d \in 1..Len(DigitChar) : DigitChar[d] = c) - 1
IsSpace(c) == c = " "

\* the decimal text of n >= 0
RECURSIVE ToText(_)
ToText(n) ==
    IF n < Len(DigitChar)
    THEN <<DigitChar[n + 1]>>
    ELSE ToText(n \div Len(DigitChar)) \o <<DigitChar[(n % Len(DigitChar)) + 1]>>

RECURSIVE trimStart(_)
trimStart(text) ==
    IF text # <<>> /\ IsSpace(Head(text)) THEN trimStart(Tail(text)) ELSE text

RECURSIVE trimEnd(_)
trimEnd(text) ==
    IF text # <<>> /\ IsSpace(text[Len(text)])
    THEN trimEnd(SubSeq(text, 1, Len(text) - 1))
    ELSE text

trim(text) == trimEnd(trimStart(text))

\* the value of the leading decimal digits of text
RECURSIVE leadingDigits(_, _)
leadingDigits(text, acc) ==
    IF text = <<>> \/ ~IsDigit(Head(text))
    THEN acc
    ELSE leadingDigits(Tail(text), Len(DigitChar) * acc + DigitVal(Head(text)))

NaN == [nan |-> TRUE, n |-> 0]

\* parseInt(text): leading white space is skipped, a sign is read, then the
\* decimal digits up to the first other character; NaN when there is none
parseInt(text) ==
    LET t0 == trimStart(text)
        signed == t0 # <<>> /\ Head(t0) \in {"-", "+"}
        digits == IF signed THEN Tail(t0) ELSE t0
    IN  IF digits = <<>> \/ ~IsDigit(Head(digits))
        THEN NaN
        ELSE [nan |-> FALSE,
              n |-> IF signed /\ Head(t0) = "-"
                    THEN 0 - leadingDigits(digits, 0)
                    ELSE leadingDigits(digits, 0)]

\* arrayInput.split(',').map(s => parseInt(s.trim())).filter(n => !isNaN(n)),
\* of the pieces that split(',') made
RECURSIVE parseValues(_)
parseValues(pieces) ==
    IF pieces = <<>>
    THEN <<>>
    ELSE LET v == parseInt(trim(Head(pieces)))
         IN  (IF v.nan THEN <<>> ELSE <<v.n>>) \o parseValues(Tail(pieces))

(***************************************************************************)
(* The event handlers, from the event to the first sleep or the return.    *)
(***************************************************************************)
\* a busy check that lets every request through; BusyRejectsAll does not hold
\* of it
busyNever(s) == FALSE

\* if (isAnimating), the first statement of every handler
busy(s) == s.isAnimating

rejectBusy(s) == Returned(showMessage(s, "Wait for animation...", TRUE))

\* insertElement(), lines 468-474
insertElement(s, text) ==
    IF busy(s)
    THEN rejectBusy(s)
    ELSE LET value == parseInt(text)
         IN  IF value.nan \/ value.n < 0 \/ value.n > MAX_INSERT
             THEN Returned(showMessage(s, "Invalid Number", TRUE))
             ELSE insert(s, NewTask("insert", TRUE, s), value.n)

\* extractElement(), lines 480-483
extractElement(s) ==
    IF busy(s)
    THEN rejectBusy(s)
    ELSE IF isEmpty(s)
         THEN Returned(showMessage(s, "Heap is empty", TRUE))
         ELSE extract(s, NewTask("extract", TRUE, s))

\* deleteAtIndexHandler whose bound test lets the index size + 1 through;
\* DeleteHandlerPassesUpToSize does not hold of it
deleteAtIndexHandlerLooseBound(s, text) ==
    IF busy(s)
    THEN rejectBusy(s)
    ELSE LET index == parseInt(text)
         IN  IF index.nan \/ index.n < 1
             THEN Returned(showMessage(s, "Invalid Index", TRUE))
             ELSE IF index.n > Len(s.heap) + 1
                  THEN Returned(showMessage(s, "out of bounds", TRUE))
                  ELSE deleteAtIndex(s, NewTask("delete", TRUE, s), index.n)

\* deleteAtIndexHandler(), lines 487-500
deleteAtIndexHandler(s, text) ==
    IF busy(s)
    THEN rejectBusy(s)
    ELSE LET index == parseInt(text)
         IN  IF index.nan \/ index.n < 1
             THEN Returned(showMessage(s, "Invalid Index", TRUE))
             ELSE IF index.n >= Len(s.heap) + 1
                  THEN Returned(showMessage(s, "out of bounds", TRUE))
                  ELSE deleteAtIndex(s, NewTask("delete", TRUE, s), index.n)

\* loadArrayHandler that binds the new heap before it sets the flag;
\* StorageOwnedByFlagHolder does not hold of it
loadArrayHandlerFlagLate(s, pieces) ==
    IF busy(s)
    THEN rejectBusy(s)
    ELSE LET values == parseValues(pieces)
         IN  IF Len(values) = 0
             THEN Returned(showMessage(s, "Invalid Array", TRUE))
             ELSE LET s0 == [called(s, "load") EXCEPT
                                !.rt = [on |-> TRUE, values |-> values, out |-> <<>>]]
                      s1 == [written([s0 EXCEPT !.heap = values]) EXCEPT !.isAnimating = TRUE]
                      s2 == updateVisualization(s1)
                      s3 == showMessage(s2, "Loading", FALSE)
                  IN  sleep(s3, [NewTask("load", TRUE, s1) EXCEPT !.arg = Len(values)],
                            ANIMATION_DELAY * 2, "load_pause")

\* loadArrayHandler(), lines 511-524
loadArrayHandler(s, pieces) ==
    IF busy(s)
    THEN rejectBusy(s)
    ELSE LET values == parseValues(pieces)
         IN  IF Len(values) = 0
             THEN Returned(showMessage(s, "Invalid Array", TRUE))
             ELSE LET s0 == [called(s, "load") EXCEPT
                                !.rt = [on |-> TRUE, values |-> values, out |-> <<>>]]
                      s1 == written([s0 EXCEPT !.isAnimating = TRUE, !.heap = values])
                      s2 == updateVisualization(s1)
                      s3 == showMessage(s2, "Loading", FALSE)
                  IN  sleep(s3, [NewTask("load", TRUE, s1) EXCEPT !.arg = Len(values)],
                            ANIMATION_DELAY * 2, "load_pause")

\* handleTypeChange that binds the new variant and skips the build loop;
\* VariantSwitchReorders does not hold of it
handleTypeChangeNoRebuild(s, newType) ==
    IF busy(s)
    THEN rejectBusy(s)
    ELSE IF newType = s.currentHeapType
         THEN Returned(s)
         ELSE LET s0 == called(s, "type")
                  s1 == written([s0 EXCEPT !.isAnimating = TRUE, !.currentHeapType = newType])
                  s2 == updateVisualization(s1)
              IN  typeEnd(s2, NewTask("type", TRUE, s))

\* handleTypeChange(), lines 537-555
handleTypeChange(s, newType) ==
    IF busy(s)
    THEN rejectBusy(s)
    ELSE IF newType = s.currentHeapType
         THEN Returned(s)
         ELSE LET s0 == called(s, "type")
                  existingValues == s0.heap
                  s1 == written([s0 EXCEPT !.isAnimating = TRUE, !.currentHeapType = newType,
                                           !.heap = existingValues])
                  s2 == updateVisualization(s1)
                  n == Len(s2.heap) + 1
              IN  buildLoop(s2, NewTask("type", TRUE, s), parent(n - 1))

\* a resize listener that refreshes whether or not the flag is set;
\* ResizeIgnoredWhileBusy does not hold of it
resizeListenerAlways(s) == [updateVisualization(s) EXCEPT !.steps = s.steps]

\* the resize listener, lines 582-584; no operation is in flight when it
\* refreshes, so its renderer calls belong to no operation's log
resizeListener(s) ==
    IF ~s.isAnimating
    THEN [updateVisualization(s) EXCEPT !.steps = s.steps]
    ELSE s

(***************************************************************************)
(* Inputs.                                                                 *)
(***************************************************************************)
\* the values typed: 0..MaxVal
ValueTexts == {ToText(n) : n \in 0..MaxVal}
\* what is typed into the insert field: values, a negative number, one too
\* large, and texts that are no number
InsertTexts ==
    ValueTexts \cup {<<"-", "1">>, ToText(MAX_INSERT + 1), <<"x">>, <<>>, <<" ", "1", "x">>}
\* what is typed into the index field, for a heap of size keys
IndexTexts(size) == {ToText(n) : n \in 0..(size + 1)} \cup {<<"x">>, <<"-", "1">>}
\* the array of the scenario 5,3,8,1,9,2
ScenarioValues == <<5, 3, 8, 1, 9, 2>>
ScenarioTexts == [n \in 1..Len(ScenarioValues) |-> ToText(ScenarioValues[n])]
\* larger arrays over the small values: in either variant they hold a slot
\* whose deletion makes the last key rise, and one that makes it sink
DeepTexts ==
    {[n \in 1..Len(a) |-> ToText(a[n])] :
        a \in {<<1, 0, 1, 0, 0, 1>>, <<0, 1, 0, 1, 1, 0>>}}
\* arrays with pieces that are no number, padded or negative
OddTexts ==
    {<<>>, <<<<>>>>, <<<<"x">>, <<"1">>>>, <<<<" ", "0", " ">>, <<"x">>>>,
     <<<<"-", "1">>, <<"0">>>>}
\* every array of 1..MaxSize values
SmallTexts == UNION {[1..n -> ValueTexts] : n \in 1..MaxSize}
\* the pieces split(',') makes of what is typed into the array field: over
\* an empty heap every small array and the named ones, over a heap that
\* holds keys the named ones
LoadTexts(size) ==
    (IF size = 0 THEN SmallTexts ELSE {}) \cup DeepTexts \cup OddTexts \cup {ScenarioTexts}
HeapTypes == {"MaxHeap", "MinHeap"}
\* the widths the browser gives the scroll container
Widths == {256, 1024}
\* the values a direct caller of the engine passes
EngineValues == {1, 3, 5}

\* the scenario array was loaded and is being extracted: the model follows
\* it with extractions only, and with no other event
ScenarioRun == rt.on /\ rt.values = ScenarioValues

(***************************************************************************)
(* Initial state: script.js has run and window.onload has made the empty   *)
(* MaxHeap; the onload handler's own loadArrayHandler() call is the        *)
(* LoadArrayHandler action.                                                *)
(***************************************************************************)
Init ==
    /\ heap = <<>>
    /\ currentHeapType = "MaxHeap"
    /\ isAnimating = FALSE
    /\ positions = EmptyFn
    /\ nodes = EmptyFn
    /\ arrayDisplay = <<>>
    /\ canvas = [width |-> 0, edges |-> {}]
    /\ extractBtn = "Extract Max"
    /\ message = NoMessage
    /\ tasks = <<>>
    /\ result = NoResult
    /\ steps = <<>>
    /\ rt = RtOff
    /\ owned = TRUE

\* the state after a run: s is the program state, ts the suspended tasks;
\* the step log is kept while an operation is in flight
Commit(s, ts) ==
    /\ heap' = s.heap
    /\ currentHeapType' = s.currentHeapType
    /\ isAnimating' = s.isAnimating
    /\ positions' = s.positions
    /\ nodes' = s.nodes
    /\ arrayDisplay' = s.arrayDisplay
    /\ canvas' = s.canvas
    /\ extractBtn' = s.extractBtn
    /\ message' = s.message
    /\ result' = s.result
    /\ steps' = IF ts = <<>> THEN <<>> ELSE s.steps
    /\ rt' = s.rt
    /\ owned' = s.owned
    /\ tasks' = ts

\* a handler (or a direct call) ran to its first sleep or to its return
Started(o) == \E out \in {o} : Commit(out.s, tasks \o out.task)

\* the state a run other than an extraction starts from: the load is no
\* longer followed by extractions only
StOther(width) == [StIn(width) EXCEPT !.rt = RtOff]

\* a handler that finds the flag set reads neither its input nor the
\* width: one input then stands for all
Typed(texts) == IF isAnimating THEN {<<>>} ELSE texts
Offered(widths) == IF isAnimating THEN {CHOOSE w \in widths : TRUE} ELSE widths

(***************************************************************************)
(* The events of the page.                                                 *)
(***************************************************************************)
InsertElementWith(text, width) ==
    /\ isAnimating \/ Len(heap) <= MaxSize
    /\ ~ScenarioRun
    /\ Started(insertElement(StOther(width), text))

InsertElement ==
    \E text \in Typed(InsertTexts), width \in Offered(Widths) : InsertElementWith(text, width)

ExtractElementAt(width) == Started(extractElement(StIn(width)))

ExtractElement == \E width \in Offered(Widths) : ExtractElementAt(width)

DeleteAtIndexHandlerWith(text, width) ==
    /\ ~ScenarioRun
    /\ Started(deleteAtIndexHandler(StOther(width), text))

DeleteAtIndexHandler ==
    \E text \in Typed(IndexTexts(Len(heap))), width \in Offered(Widths) :
        DeleteAtIndexHandlerWith(text, width)

LoadArrayHandlerWith(pieces, width) ==
    /\ ~ScenarioRun
    /\ Started(loadArrayHandler(StOther(width), pieces))

LoadArrayHandler ==
    \E pieces \in Typed(LoadTexts(Len(heap))), width \in Offered(Widths) :
        LoadArrayHandlerWith(pieces, width)

HandleTypeChangeTo(newType, width) ==
    /\ ~ScenarioRun
    /\ Started(handleTypeChange(StOther(width), newType))

HandleTypeChange ==
    \E newType \in HeapTypes, width \in Offered(Widths) : HandleTypeChangeTo(newType, width)

\* the timer of the k-th sleeping task fires
ResumeTask(k, width) ==
    \E out \in {resume(StIn(width), tasks[k])} :
        Commit(out.s, SubSeq(tasks, 1, k - 1) \o out.task
                      \o SubSeq(tasks, k + 1, Len(tasks)))

Resume == \E k \in 1..Len(tasks), width \in Widths : ResumeTask(k, width)

\* the window was resized to the width
ResizeTo(width) ==
    /\ ~ScenarioRun
    /\ Commit(resizeListener(StOther(width)), tasks)

Resize == \E width \in Widths : ResizeTo(width)

Next ==
    \/ InsertElement
    \/ ExtractElement
    \/ DeleteAtIndexHandler
    \/ LoadArrayHandler
    \/ HandleTypeChange
    \/ Resume
    \/ Resize

Spec == Init /\ [][Next]_vars

\* a run of a suspended operation: it adds to the step log, or ends the
\* operation and the log with it; no other run touches the log while an
\* operation is suspended
TimerStep == tasks # <<>> /\ steps' # steps

\* the page with its timers: a timer that was set fires (setTimeout, line
\* 30).  This is weak fairness of Resume, written out, with tasks # <<>> for
\* ENABLED <<Resume>>_vars and TimerStep for <<Resume>>_vars.
SpecFair == Spec /\ ([]<>(tasks = <<>>) \/ []<><<TimerStep>>_vars)

(***************************************************************************)
(* The engine called directly, by a caller that awaits each call before    *)
(* the next; peek() is synchronous and may be called at any time.  The     *)
(* extract handler and the variant switch of the page take part as well.   *)
(***************************************************************************)
EngineInsertOf(value, width) ==
    /\ tasks = <<>>
    /\ Len(heap) <= MaxSize
    /\ LET s == StIn(width) IN Started(insert(s, NewTask("insert", FALSE, s), value))

EngineInsert == \E value \in EngineValues, width \in Widths : EngineInsertOf(value, width)

EngineExtractAt(width) ==
    /\ tasks = <<>>
    /\ LET s == StIn(width) IN Started(extract(s, NewTask("extract", FALSE, s)))

EngineExtract == \E width \in Widths : EngineExtractAt(width)

EngineDeleteAtIndexOf(index, width) ==
    /\ tasks = <<>>
    /\ LET s == StIn(width) IN Started(deleteAtIndex(s, NewTask("delete", FALSE, s), index))

\* the indices a direct caller passes: those of the heap, and two on each side
DeleteIndices == (0 - 1)..(Len(heap) + 2)

EngineDeleteAtIndex ==
    \E index \in DeleteIndices, width \in Widths : EngineDeleteAtIndexOf(index, width)

\* peek() is synchronous code that calls nothing: no run of the page ends or
\* starts with it
EnginePeek ==
    /\ result' = Result("peek", peek(StIn(CHOOSE w \in Widths : TRUE)))
    /\ UNCHANGED <<heap, currentHeapType, isAnimating, positions, nodes, arrayDisplay,
                   canvas, extractBtn, message, tasks, steps, rt, owned>>

NextEngine ==
    \/ EngineInsert
    \/ EngineExtract
    \/ EngineDeleteAtIndex
    \/ EnginePeek
    \/ ExtractElement
    \/ HandleTypeChange
    \/ Resume

SpecEngine == Init /\ [][NextEngine]_vars

(***************************************************************************)
(* Properties.                                                             *)
(***************************************************************************)
\* the key at i and the key at its parent are in the order of the variant
InOrder(h, type, i) ==
    IF type = "MaxHeap" THEN h[parent(i)] >= h[i] ELSE h[parent(i)] <= h[i]

HeapOrdered(h, type) == \A i \in 2..Len(h) : InOrder(h, type, i)

\* the number of occurrences of v in the sequence q
Count(q, v) == Cardinality({k \in 1..Len(q) : q[k] = v})

\* a and b hold the same values, each as often
SameValues(a, b) ==
    /\ Len(a) = Len(b)
    /\ \A k \in 1..Len(a) : Count(a, a[k]) = Count(b, a[k])

\* q is in the order in which the variant gives up its keys
Sorted(q, type) ==
    \A k \in 1..(Len(q) - 1) :
        IF type = "MaxHeap" THEN q[k] >= q[k + 1] ELSE q[k] <= q[k + 1]

\* v is the extreme of the values of h: the largest for Max, the smallest
\* for Min
Extreme(v, h, type) ==
    \A k \in 1..Len(h) : IF type = "MaxHeap" THEN v >= h[k] ELSE v <= h[k]

\* this step is the run in which the operation op in flight ends
Completes(op) == tasks # <<>> /\ tasks[1].op = op /\ tasks' = <<>>

\* this step changes nothing that is shown
DisplayUnchanged == UNCHANGED <<positions, nodes, arrayDisplay, canvas, extractBtn>>

\* what a direct call of extract() and of deleteAtIndex(index) does up to
\* its first pause or its return
ExtractCall(width) ==
    LET s == StIn(width) IN extract(s, NewTask("extract", FALSE, s))
DeleteCall(index, width) ==
    LET s == StIn(width) IN deleteAtIndex(s, NewTask("delete", FALSE, s), index)

\* C1: whenever the busy flag is clear, after any sequence of inserts,
\* extractions, deletions, loads and variant switches, every index i with
\* 1 < i <= size holds a key in the variant's order against its parent:
\* storage[i div 2] >= storage[i] for Max, <= for Min.
HeapOrderWhenIdle == ~isAnimating => HeapOrdered(heap, currentHeapType)

\* a load into the Min variant completed after rearranging four keys or more
HeapOrderWhenIdleWitness ==
    /\ ~isAnimating
    /\ message.kind = "Built"
    /\ rt.on
    /\ currentHeapType = "MinHeap"
    /\ Len(heap) >= 4
    /\ heap # rt.values

\* C2: after a load of a non-empty list, the values that the extractions
\* that follow it return come in non-increasing order for Max and in
\* non-decreasing order for Min, and between two operations they are,
\* together with the keys still stored, exactly the values loaded: once the
\* heap is empty the extractions returned the multiset of the values loaded.
LoadThenExtractSorts ==
    rt.on =>
        /\ Sorted(rt.out, currentHeapType)
        /\ ~isAnimating => SameValues(rt.out \o heap, rt.values)
        /\ ~isAnimating /\ heap = <<>> => SameValues(rt.out, rt.values)

\* 5,3,8,1,9,2 was loaded into the Max variant and extracted to the last key
LoadThenExtractSortsWitness ==
    /\ rt.on
    /\ rt.values = ScenarioValues
    /\ currentHeapType = "MaxHeap"
    /\ ~isAnimating
    /\ heap = <<>>
    /\ rt.out = <<9, 8, 5, 3, 2, 1>>

\* C3: size accounting.  The run that ends an insert leaves one key more
\* than the insert found; the run that ends an extraction from a non-empty
\* heap, or a deletion, leaves one key fewer than the operation found (a
\* deletion of the last slot ends in the run that called it); a
\* deleteAtIndex with an index out of range leaves the size as it was.  (A
\* task remembers in pre the storage that the call which started it found.)
SizeAccounting ==
    [][/\ Completes("insert") => Len(heap') = Len(tasks[1].pre) + 1
       /\ Completes("extract") => Len(heap') = Len(tasks[1].pre) - 1
       /\ Completes("delete") => Len(heap') = Len(tasks[1].pre) - 1
       /\ \A index \in DeleteIndices, width \in Widths :
              EngineDeleteAtIndexOf(index, width) =>
                  IF index < 1 \/ index > Len(heap)
                  THEN Len(heap') = Len(heap)
                  ELSE IF tasks' = <<>>
                       THEN Len(heap') = Len(heap) - 1
                       ELSE Len(heap') = Len(heap)
       /\ tasks = <<>> /\ tasks' # <<>> => tasks'[1].pre = heap
      ]_vars

\* a deletion that sifted, called directly, has completed on a heap of four
SizeAccountingWitness ==
    /\ ~isAnimating
    /\ result.of = "delete"
    /\ result.val.success
    /\ Len(heap) = 3
    /\ currentHeapType = "MaxHeap"
    /\ result.val.value > heap[1]

\* C4: the run that ends an extraction from a non-empty heap returns the
\* value that was at index 1 when extract() was called, which is the largest
\* (Max) or the smallest (Min) of the values stored then, and leaves stored
\* the values stored then less one occurrence of that value.
ExtractReturnsRoot ==
    [][Completes("extract") =>
          LET t == tasks[1]
          IN  /\ t.pre # <<>>
              /\ t.value = t.pre[1]
              /\ ~t.ui => result' = Result("extract", Number(t.pre[1]))
              /\ currentHeapType' = t.preType
              /\ Extreme(t.pre[1], t.pre, t.preType)
              /\ SameValues(<<t.pre[1]>> \o heap', t.pre)
      ]_vars

\* a direct extraction from a Min heap of three keys or more has returned
ExtractReturnsRootWitness ==
    /\ ~isAnimating
    /\ result.of = "extract"
    /\ result.val.tag = "number"
    /\ currentHeapType = "MinHeap"
    /\ Len(heap) >= 2
    /\ result.val.value < heap[1]

\* C5: deleteAtIndex(index) with index < 1 or index > size returns
\* { success: false, value: null }, leaves the storage and what is shown
\* exactly as they were, makes no renderer call and no pause, and leaves the
\* busy flag clear.
DeleteOutOfRange ==
    [][\A index \in DeleteIndices, width \in Widths :
          (index < 1 \/ index > Len(heap)) /\ EngineDeleteAtIndexOf(index, width) =>
              /\ result' = Result("delete", DeleteFailed)
              /\ heap' = heap
              /\ currentHeapType' = currentHeapType
              /\ ~isAnimating /\ ~isAnimating'
              /\ tasks' = <<>>
              /\ DeleteCall(index, width).s.steps = <<>>
              /\ DisplayUnchanged
      ]_vars

\* a direct deleteAtIndex on a heap that holds keys has failed
DeleteOutOfRangeWitness ==
    /\ result = Result("delete", DeleteFailed)
    /\ heap # <<>>
    /\ ~isAnimating

\* C6: deleteAtIndex(index) with 1 <= index <= size succeeds: the run that
\* ends it returns { success: true, value: v } with v the value that was at
\* storage[index] at the call, and leaves stored the values stored at the
\* call less one occurrence of v; deleteAtIndex(1) on a heap of one key
\* returns that key and leaves the heap empty.
DeleteReturnsSlot ==
    [][/\ Completes("delete") =>
              LET t == tasks[1]
              IN  /\ t.index \in 1..Len(t.pre)
                  /\ ~t.ui => result' = Result("delete", DeleteOk(t.pre[t.index]))
                  /\ SameValues(<<t.pre[t.index]>> \o heap', t.pre)
       /\ \A index \in 1..Len(heap), width \in Widths :
              EngineDeleteAtIndexOf(index, width) =>
                  IF tasks' = <<>>
                  THEN /\ result' = Result("delete", DeleteOk(heap[index]))
                       /\ SameValues(<<heap[index]>> \o heap', heap)
                  ELSE /\ tasks'[1].op = "delete"
                       /\ tasks'[1].pre = heap
                       /\ tasks'[1].index = index
       /\ \A width \in Widths :
              Len(heap) = 1 /\ EngineDeleteAtIndexOf(1, width) =>
                  /\ result' = Result("delete", DeleteOk(heap[1]))
                  /\ heap' = <<>>
                  /\ tasks' = <<>>
      ]_vars

\* a direct deleteAtIndex has succeeded and left the heap empty
DeleteReturnsSlotWitness ==
    /\ result.of = "delete"
    /\ result.val.success
    /\ heap = <<>>
    /\ ~isAnimating
    /\ message = NoMessage

\* C7: extract() on an empty heap returns null, leaves the storage and what
\* is shown as they were, makes no renderer call and no pause and leaves the
\* busy flag clear; the extract handler, on an empty heap, reports
\* "Heap is empty" and starts no operation.
ExtractOnEmpty ==
    [][\A width \in Widths :
          /\ heap = <<>> /\ EngineExtractAt(width) =>
                 /\ result' = Result("extract", Null)
                 /\ heap' = <<>>
                 /\ ~isAnimating /\ ~isAnimating'
                 /\ tasks' = <<>>
                 /\ ExtractCall(width).s.steps = <<>>
                 /\ DisplayUnchanged
          /\ heap = <<>> /\ ~isAnimating /\ ExtractElementAt(width) =>
                 /\ message' = Message("Heap is empty", TRUE)
                 /\ heap' = <<>>
                 /\ ~isAnimating'
                 /\ tasks' = <<>>
                 /\ extractElement(StIn(width)).s.steps = <<>>
                 /\ result' = result
                 /\ DisplayUnchanged
      ]_vars

\* extract() returned null to a direct caller, and the handler then reported
\* the empty heap
ExtractOnEmptyWitness ==
    /\ result = Result("extract", Null)
    /\ message = Message("Heap is empty", TRUE)
    /\ heap = <<>>
    /\ ~isAnimating

\* C8: peek() changes nothing; it returns null exactly when the heap holds
\* no key and storage[1] otherwise, and while no operation is in flight
\* storage[1] is the smallest value stored for Min and the largest for Max.
PeekReadsRoot ==
    /\ [](\A width \in Widths :
             LET v == peek(StIn(width))
             IN  /\ v = Null <=> Len(heap) = 0
                 /\ Len(heap) > 0 => v = Number(heap[1])
                 /\ Len(heap) > 0 /\ tasks = <<>> =>
                        Extreme(v.value, heap, currentHeapType))
    /\ [][EnginePeek =>
              /\ result' = Result("peek", IF Len(heap) = 0 THEN Null ELSE Number(heap[1]))
              /\ UNCHANGED <<heap, currentHeapType, isAnimating, tasks, steps>>
              /\ DisplayUnchanged
          ]_vars

\* 5, 1 and 3 were inserted into an empty Min heap and peek() returned 1
PeekReadsRootWitness ==
    /\ currentHeapType = "MinHeap"
    /\ heap = <<1, 5, 3>>
    /\ ~isAnimating
    /\ result = Result("peek", Number(1))

\* the outcome o of a handler called in the state s is the rejection: the
\* busy indication is shown, no operation is started, and the storage, the
\* variant, the flag, the step log and what is shown are as they were in s
RejectedBusy(s, o) ==
    o = [s |-> [s EXCEPT !.message = Message("Wait for animation...", TRUE)],
         task |-> <<>>]

\* C9: while the busy flag is set, each of the five handlers, whatever is
\* typed, answers with the busy indication and changes neither the storage,
\* the variant nor the flag; so at every point at which an operation is
\* suspended, under every interleaving of handler calls, at most one
\* operation is in flight, and the flag is set exactly while one is.
BusyRejectsAll ==
    /\ Len(tasks) <= 1
    /\ isAnimating <=> tasks # <<>>
    /\ isAnimating =>
           \A width \in Widths :
               LET s == StOther(width)
               IN  /\ s.heap = heap /\ s.currentHeapType = currentHeapType
                   /\ s.isAnimating
                   /\ \A text \in InsertTexts : RejectedBusy(s, insertElement(s, text))
                   /\ RejectedBusy(s, extractElement(s))
                   /\ \A text \in IndexTexts(Len(heap)) :
                          RejectedBusy(s, deleteAtIndexHandler(s, text))
                   /\ \A pieces \in LoadTexts(Len(heap)) :
                          RejectedBusy(s, loadArrayHandler(s, pieces))
                   /\ \A newType \in HeapTypes : RejectedBusy(s, handleTypeChange(s, newType))

\* a handler was called while a deletion was between two swaps, and rejected
BusyRejectsAllWitness ==
    /\ isAnimating
    /\ tasks # <<>>
    /\ tasks[1].op = "delete"
    /\ tasks[1].mode = "down"
    /\ message = Message("Wait for animation...", TRUE)

\* what is shown is what updateVisualization makes of the storage
Refreshed ==
    /\ arrayDisplay = heap
    /\ DOMAIN positions = 1..Len(heap)
    /\ DOMAIN nodes = 1..Len(heap)
    /\ \A i \in 1..Len(heap) :
           /\ nodes[i].text = heap[i]
           /\ nodes[i].title = i
           /\ nodes[i].left = positions[i].x - NODE_RADIUS
           /\ nodes[i].top = positions[i].y - NODE_RADIUS

\* C10: a request is accepted only while the busy flag is clear, and in every
\* state in which the flag is clear the operation before has performed its
\* final refresh: there is no state in which the flag has been cleared and
\* the refresh is still to come.
RefreshedWhenIdle == ~isAnimating => Refreshed

\* a deletion from a heap of five keys or more has ended and the page shows
\* the storage it left
RefreshedWhenIdleWitness ==
    /\ ~isAnimating
    /\ message.kind = "Deleted"
    /\ Len(heap) >= 4
    /\ Refreshed

\* the steps of swap(i, j), in the order of section 4.3
SwapSteps(i, j) ==
    <<Step("highlight", i, 0, "swap"), Step("highlight", j, 0, "swap"),
      Step("sleep", SETTLE_DELAY, 0, ""),
      Step("move", i, j, ""),
      Step("sleep", ANIMATION_DELAY, 0, ""),
      Step("swapStorage", i, j, ""), Step("relabel", i, j, ""),
      Step("updateArrayDisplay", 0, 0, ""),
      Step("unhighlight", i, 0, ""), Step("unhighlight", j, 0, "")>>

\* e is a step that only swap() makes
OfSwap(e) ==
    \/ e.op \in {"move", "swapStorage", "relabel"}
    \/ e.op = "highlight" /\ e.tag = "swap"

\* the log is made of whole swap sequences, one after the other, between
\* steps that are no swap's; the last sequence may be cut at one of its pauses
\* when the log ends there
RECURSIVE SwapsInOrder(_)
SwapsInOrder(log) ==
    IF log = <<>>
    THEN TRUE
    ELSE IF ~OfSwap(Head(log))
         THEN SwapsInOrder(Tail(log))
         ELSE /\ Len(log) >= 3
              /\ LET whole == SwapSteps(log[1].i, log[2].i)
                      n == IF Len(log) >= Len(whole) THEN Len(whole) ELSE Len(log)
                  IN  /\ SubSeq(log, 1, n) = SubSeq(whole, 1, n)
                      /\ log[n].op \in {"sleep", "unhighlight"}
                      /\ SwapsInOrder(SubSeq(log, n + 1, Len(log)))

\* C11: every swap of slots i and j, in any operation, makes its steps in
\* this order: highlight(i, swap), highlight(j, swap), the settle pause, the
\* move of the two nodes, the transition pause, the exchange of storage[i]
\* and storage[j], the relabel, the refresh of the array text, unhighlight(i),
\* unhighlight(j); the storage is not exchanged at either pause, and a swap
\* makes its first step after the swap before it made its last.  (The log of
\* the run that ends the operation is read from the outcome of that run.)
SwapStepsInOrder ==
    /\ SwapsInOrder(steps)
    /\ tasks # <<>> =>
           \A width \in Widths :
               \E o \in {resume(StIn(width), tasks[1])} :
                   /\ SwapsInOrder(o.s.steps)
                   /\ SubSeq(o.s.steps, 1, Len(steps)) = steps
                   /\ tasks[1].pc = "settle" =>
                          /\ o.s.heap = heap
                          /\ o.task # <<>> /\ o.task[1].pc = "transition"
                   /\ tasks[1].pc = "transition" =>
                          /\ Len(o.s.steps) > Len(steps)
                          /\ o.s.steps[Len(steps) + 1] =
                                 Step("swapStorage", tasks[1].i, tasks[1].j, "")

\* an operation that completed one swap is at the transition pause of its
\* second
SwapStepsInOrderWitness ==
    /\ tasks # <<>>
    /\ tasks[1].pc = "transition"
    /\ \E k \in 1..Len(steps) : steps[k].op = "swapStorage"
    /\ heap[tasks[1].i] # heap[tasks[1].j]

\* the two steps of a full refresh: updateVisualization and, first in it, the
\* refresh of the array text
RefreshSteps == <<Step("updateVisualization", 0, 0, ""), Step("updateArrayDisplay", 0, 0, "")>>

\* the log begins with the sequence q, as far as the log goes
Begins(log, q) ==
    LET n == IF Len(log) >= Len(q) THEN Len(q) ELSE Len(log)
    IN  SubSeq(log, 1, n) = SubSeq(q, 1, n)

\* the log ends with a full refresh
EndsRefreshed(log) ==
    /\ Len(log) >= Len(RefreshSteps)
    /\ SubSeq(log, Len(log) - Len(RefreshSteps) + 1, Len(log)) = RefreshSteps

\* how the log of an insert begins: the refresh, then the highlight of the
\* appended leaf and the pause
InsertFrame(t) ==
    RefreshSteps \o <<Step("highlight", Len(t.pre) + 1, 0, "insert"),
                      Step("sleep", ANIMATION_DELAY, 0, ""),
                      Step("unhighlight", Len(t.pre) + 1, 0, "")>>

\* how the log of an extraction begins: the highlight of the root and the
\* pause, and then, when more than one key is stored, a refresh
ExtractFrame(t) ==
    <<Step("highlight", 1, 0, "extract"), Step("sleep", ANIMATION_DELAY * 2, 0, "")>>
    \o RefreshSteps

\* C12 as it is stated: an insert and an extraction from a non-empty heap
\* each begin with a full refresh and end with one, and make the highlight
\* and the pause on the index they touch before any step of a swap.
RefreshAtStartOfInsertAndExtract ==
    tasks # <<>> /\ tasks[1].op \in {"insert", "extract"} =>
        /\ Begins(steps, RefreshSteps)
        /\ \A width \in Widths :
               \E o \in {resume(StIn(width), tasks[1])} :
                   o.task = <<>> => EndsRefreshed(o.s.steps)

\* C12, amended: an insert begins with a full refresh, then highlights the
\* appended leaf and pauses; an extraction from a non-empty heap begins with
\* the highlight of the root and the pause, with no refresh before them, and
\* refreshes after the pause, once the last key is in the root (an
\* extraction of the only key makes no refresh but the last); no step of a
\* swap comes before the highlight and the pause; both end with a full
\* refresh.
InsertExtractStepFrame ==
    tasks # <<>> /\ tasks[1].op \in {"insert", "extract"} =>
        LET t == tasks[1]
        IN  /\ t.op = "insert" => Begins(steps, InsertFrame(t)) /\ Len(steps) >= 4
            /\ t.op = "extract" =>
                   /\ Begins(steps, ExtractFrame(t)) /\ Len(steps) >= 2
                   /\ Len(t.pre) >= 1
                   /\ Len(steps) > 2 => Len(t.pre) >= 2
            /\ \A width \in Widths :
                   \E o \in {resume(StIn(width), t)} :
                       /\ t.op = "extract" /\ t.pc = "extract_hl" =>
                              IF Len(t.pre) = 1
                              THEN o.task = <<>> /\ o.s.steps = SubSeq(ExtractFrame(t), 1, 4)
                              ELSE Begins(o.s.steps, ExtractFrame(t)) /\ Len(o.s.steps) >= 4
                       /\ o.task = <<>> => EndsRefreshed(o.s.steps)

\* an extraction from a heap of two keys or more made its refresh after the
\* pause and is in its sift-down
InsertExtractStepFrameWitness ==
    /\ tasks # <<>>
    /\ tasks[1].op = "extract"
    /\ tasks[1].pc = "settle"
    /\ Len(steps) > 4
    /\ steps[1] = Step("highlight", 1, 0, "extract")
    /\ steps[3] = Step("updateVisualization", 0, 0, "")

\* a is strictly more extreme than b in the variant
Beats(a, b, type) == IF type = "MaxHeap" THEN a > b ELSE a < b

\* h with the slots i and j exchanged
Exchanged(h, i, j) == [h EXCEPT ![i] = h[j], ![j] = h[i]]

\* the exchanges of a sift-up in h from index, as pairs <<parent, child>>:
\* one per parent that is strictly on the wrong side, up to the root or to
\* the first parent that is not
RECURSIVE SiftUpPath(_, _, _)
SiftUpPath(h, type, index) ==
    IF index > 1 /\ Beats(h[index], h[parent(index)], type)
    THEN <<<<parent(index), index>>>>
         \o SiftUpPath(Exchanged(h, parent(index), index), type, parent(index))
    ELSE <<>>

\* h after the exchanges of path, in their order
RECURSIVE AfterExchanges(_, _)
AfterExchanges(h, path) ==
    IF path = <<>>
    THEN h
    ELSE AfterExchanges(Exchanged(h, Head(path)[1], Head(path)[2]), Tail(path))

IsExchange(e) == e.op = "swapStorage"
IsMove(e) == e.op = "move"
IsInsertHighlight(e) == e.op = "highlight" /\ e.tag = "insert"

\* the exchanges the log records, as pairs, in their order
RECURSIVE ExchangesOf(_)
ExchangesOf(log) ==
    IF log = <<>>
    THEN <<>>
    ELSE (IF IsExchange(Head(log)) THEN <<<<Head(log).i, Head(log).j>>>> ELSE <<>>)
         \o ExchangesOf(Tail(log))

\* C13: insert(value) appends the value at index size + 1 and highlights
\* that index once, before it compares anything; it then makes one swap
\* sequence for each exchange of the sift-up from that index, which exchanges
\* the new key with its parent while the parent is strictly on the wrong side
\* (parent < child for Max, parent > child for Min) and stops at the root or
\* at the first parent that is not: an equal parent is not exchanged.
InsertSiftsUpStrictly ==
    tasks # <<>> /\ tasks[1].op = "insert" =>
        LET t == tasks[1]
            first == Append(t.pre, t.arg)
            path == SiftUpPath(first, t.preType, Len(first))
        IN  /\ t.index = Len(t.pre) + 1
            /\ t.pc = "insert_hl" => heap = first /\ ExchangesOf(steps) = <<>>
            /\ Len(SelectSeq(steps, IsInsertHighlight)) = 1
            /\ steps[3] = Step("highlight", Len(first), 0, "insert")
            /\ Begins(ExchangesOf(steps), path)
            /\ heap = AfterExchanges(first, ExchangesOf(steps))
            /\ \A width \in Widths :
                   \E o \in {resume(StIn(width), t)} :
                       /\ Begins(ExchangesOf(o.s.steps), path)
                       /\ Len(SelectSeq(o.s.steps, IsInsertHighlight)) = 1
                       /\ o.task = <<>> =>
                              /\ ExchangesOf(o.s.steps) = path
                              /\ Len(SelectSeq(o.s.steps, IsMove)) = Len(path)
                              /\ o.s.heap = AfterExchanges(first, path)

\* an insert under a parent that holds the same value is at its pause, and
\* an exchange was made by none
InsertSiftsUpStrictlyWitness ==
    /\ tasks # <<>>
    /\ tasks[1].op = "insert"
    /\ tasks[1].pc = "insert_hl"
    /\ Len(heap) >= 4
    /\ heap[parent(Len(heap))] = heap[Len(heap)]

\* C14: a switch of variant keeps the values stored, each as often, through
\* every run of it, and ends with the heap in the order of the new variant;
\* a switch to the variant that is bound already (as is the second of two
\* switches to X) changes nothing, so the values are as they were and the
\* order of X holds.
VariantSwitchReorders ==
    /\ ~isAnimating =>
           \A width \in Widths, newType \in HeapTypes :
               \E o \in {handleTypeChange(StOther(width), newType)} :
                   /\ SameValues(o.s.heap, heap)
                   /\ newType = currentHeapType =>
                          /\ o.task = <<>>
                          /\ o.s.heap = heap
                          /\ o.s.currentHeapType = newType
                          /\ ~o.s.isAnimating
                          /\ HeapOrdered(o.s.heap, newType)
                   /\ newType # currentHeapType =>
                          /\ o.s.currentHeapType = newType
                          /\ o.task = <<>> => HeapOrdered(o.s.heap, newType)
                          /\ o.task # <<>> =>
                                 o.task[1].pre = heap /\ o.task[1].preType = currentHeapType
    /\ tasks # <<>> /\ tasks[1].op = "type" =>
           /\ SameValues(heap, tasks[1].pre)
           /\ currentHeapType # tasks[1].preType
           /\ \A width \in Widths :
                  \E o \in {resume(StIn(width), tasks[1])} :
                      /\ SameValues(o.s.heap, tasks[1].pre)
                      /\ o.s.currentHeapType = currentHeapType
                      /\ o.task = <<>> => HeapOrdered(o.s.heap, currentHeapType)

\* a switch to Min is rearranging a heap of three keys or more, after one
\* exchange
VariantSwitchReordersWitness ==
    /\ tasks # <<>>
    /\ tasks[1].op = "type"
    /\ currentHeapType = "MinHeap"
    /\ Len(heap) >= 3
    /\ ExchangesOf(steps) # <<>>
    /\ heap # tasks[1].pre

\* what is typed into the index field, with texts that parseInt reads as 1
\* though they are no numeral
IndexTextsWide(size) == IndexTexts(size) \cup {<<"1", "x">>, <<" ", "1">>, <<"+", "1">>}

\* the outcome o of the delete handler shows that it called deleteAtIndex
PassedOn(o) == o.s.message.kind \notin {"Invalid Index", "out of bounds", "Wait for animation..."}

\* C15 as it is stated: the delete handler passes an index on to
\* deleteAtIndex only when it is at least 1 and less than the number of keys
\* stored.
DeleteHandlerPassesBelowSize ==
    ~isAnimating =>
        \A width \in Widths, text \in IndexTextsWide(Len(heap)) :
            \E o \in {deleteAtIndexHandler(StOther(width), text)} :
                PassedOn(o) =>
                    /\ ~parseInt(text).nan
                    /\ parseInt(text).n >= 1
                    /\ parseInt(text).n < Len(heap)

\* C15, amended: the delete handler passes on to deleteAtIndex exactly the
\* texts that parseInt reads as a number n with 1 <= n <= size, the last
\* index included, and deleteAtIndex then succeeds; every other text is
\* rejected with a message, with the storage, the flag and what is shown
\* unchanged and no step made.
DeleteHandlerPassesUpToSize ==
    ~isAnimating =>
        \A width \in Widths, text \in IndexTextsWide(Len(heap)) :
            \E o \in {deleteAtIndexHandler(StOther(width), text)} :
                LET index == parseInt(text)
                    s == StOther(width)
                IN  /\ PassedOn(o) <=> ~index.nan /\ index.n >= 1 /\ index.n <= Len(heap)
                    /\ ~PassedOn(o) =>
                           /\ o.s.message.isError
                           /\ o = Returned([s EXCEPT !.message = o.s.message])
                    /\ PassedOn(o) =>
                           IF o.task = <<>>
                           THEN /\ index.n = Len(heap)
                                /\ o.s.message = Message("Deleted", FALSE)
                                /\ o.s.heap = SubSeq(heap, 1, Len(heap) - 1)
                           ELSE /\ index.n < Len(heap)
                                /\ o.task[1].op = "delete"
                                /\ o.task[1].index = index.n
                                /\ o.s.heap = heap

\* the handler was given the index 1 on a heap of one key, which is its
\* size, and the key was deleted
DeleteHandlerPassesUpToSizeWitness ==
    /\ ~isAnimating
    /\ message = Message("Deleted", FALSE)
    /\ heap = <<>>

\* C16: a resize event while the busy flag is set computes no layout and
\* draws nothing: the positions, the nodes, the canvas and the array text
\* stay as the operation in flight left them; a resize event while the flag
\* is clear lays the heap out for the new width and redraws it.
ResizeIgnoredWhileBusy ==
    \A width \in Widths :
        LET s == StOther(width)
            after == resizeListener(s)
        IN  IF isAnimating
            THEN /\ after = s
                 /\ after.positions = positions /\ after.nodes = nodes
                 /\ after.canvas = canvas /\ after.arrayDisplay = arrayDisplay
            ELSE /\ after.heap = heap /\ ~after.isAnimating
                 /\ after.canvas.width >= width
                 /\ after.arrayDisplay = heap
                 /\ DOMAIN after.positions = 1..Len(heap)
                 /\ DOMAIN after.nodes = 1..Len(heap)
                 /\ \A i \in 1..Len(heap) :
                        /\ after.nodes[i].left = after.positions[i].x - NODE_RADIUS
                        /\ after.nodes[i].text = heap[i]
                 /\ heap # <<>> => after.positions[1].x * 2 = after.canvas.width

\* the window was resized to a wider one while a load was at its first
\* pause, laid out for the narrow one
ResizeIgnoredWhileBusyWitness ==
    /\ isAnimating
    /\ tasks # <<>>
    /\ tasks[1].op = "load"
    /\ tasks[1].pc = "load_pause"
    /\ ~rt.on
    /\ message = NoMessage
    /\ canvas.width = 256

\* C17: given that every pause ends, every operation that was accepted runs
\* to its end and clears the busy flag: while the flag is set an operation
\* is suspended at a pause, and from every state in which the flag is set a
\* state in which it is clear is reached.  (The first two conjuncts are what
\* SpecFair takes for the enabling and for the steps of Resume.)
OperationsTerminate ==
    /\ [](isAnimating =>
             /\ tasks # <<>>
             /\ \A width \in Widths :
                    \E o \in {resume(StIn(width), tasks[1])} :
                        IF o.task = <<>>
                        THEN ~o.s.isAnimating
                        ELSE o.s.isAnimating /\ Len(o.s.steps) > Len(steps))
    /\ [][TimerStep => Resume]_vars
    /\ isAnimating ~> ~isAnimating

\* a switch of variant over four keys or more has run to its end
OperationsTerminateWitness ==
    /\ ~isAnimating
    /\ message.kind = "Switched"
    /\ Len(heap) >= 4
    /\ tasks = <<>>

\* what the choice of a sift-down from index must be, told from the keys
\* of index and of its children that are in range
ChoiceRule(s, index) ==
    LET left == 2 * index
        right == 2 * index + 1
        hasLeft == left <= Len(s.heap)
        hasRight == right <= Len(s.heap)
        leftBeats == hasLeft /\ Beats(s.heap[left], s.heap[index], s.currentHeapType)
        rightBeats == hasRight /\ Beats(s.heap[right], s.heap[index], s.currentHeapType)
        rightOverLeft == hasRight /\ Beats(s.heap[right], s.heap[left], s.currentHeapType)
    IN  \E choice \in {heapifyChoice(s, index)} :
            /\ ~leftBeats /\ ~rightBeats => choice = index
            /\ leftBeats /\ ~rightOverLeft => choice = left
            /\ leftBeats /\ rightOverLeft => choice = right
            /\ ~leftBeats /\ rightBeats => choice = right

\* the next run of the task calls heapify: after a swap of a sift-down, and
\* after the pause of an extraction that leaves a key
SiftsDownNext(t) ==
    \/ t.pc = "transition" /\ t.mode = "down"
    \/ t.pc = "extract_hl" /\ Len(heap) >= 2

\* C18: a sift-down from index keeps index when no child in range is
\* strictly more extreme than it, takes the left child when that is strictly
\* more extreme than index, and lets the right child replace the choice only
\* when it is strictly more extreme than the choice (of two equal children
\* that beat the parent, the left); it swaps index with the choice and goes
\* on from the choice when the choice is not index, and makes no swap
\* otherwise.
SiftDownChoosesLeftFirst ==
    /\ \A index \in 1..Len(heap) :
           ChoiceRule([heap |-> heap, currentHeapType |-> currentHeapType], index)
    /\ tasks # <<>> /\ SiftsDownNext(tasks[1]) =>
           \A width \in Widths :
               \E o \in {resume(StIn(width), tasks[1])} :
                   LET index == IF tasks[1].pc = "extract_hl" THEN 1 ELSE tasks[1].j
                   IN  \E choice \in {heapifyChoice(o.s, index)} :
                           /\ ChoiceRule(o.s, index)
                           /\ IF choice # index
                              THEN /\ o.task # <<>>
                                   /\ o.task[1].pc = "settle"
                                   /\ o.task[1].mode = "down"
                                   /\ o.task[1].i = index
                                   /\ o.task[1].j = choice
                              ELSE /\ o.task = <<>> \/ o.task[1].i < index
                                   /\ tasks[1].op \in {"extract", "delete"} => o.task = <<>>

\* a sift-down from the root found two equal children that both beat the
\* root, and is at the first pause of the swap with the left one
SiftDownChoosesLeftFirstWitness ==
    /\ tasks # <<>>
    /\ tasks[1].pc = "settle"
    /\ tasks[1].mode = "down"
    /\ tasks[1].i = 1
    /\ tasks[1].j = 2
    /\ Len(heap) >= 3
    /\ heap[2] = heap[3]
    /\ heap[2] # heap[1]

\* C19: deleteAtIndex(index) of the last index removes that slot with no
\* swap and no restore; of any other valid index it swaps the slot with the
\* last one, drops the last slot, and restores from index: by a sift-up
\* when index > 1 and the key now at index is strictly on the wrong side of
\* its parent, by a sift-down from index otherwise; a restore that went one
\* way never goes the other.
DeleteRestoresOneWay ==
    /\ ~isAnimating =>
           \A index \in 1..Len(heap), width \in Widths :
               \E o \in {deleteAtIndexHandler(StOther(width), ToText(index))} :
                   IF index = Len(heap)
                   THEN /\ o.task = <<>>
                        /\ o.s.heap = SubSeq(heap, 1, Len(heap) - 1)
                        /\ \A k \in 1..Len(o.s.steps) : ~OfSwap(o.s.steps[k])
                   ELSE /\ o.task # <<>>
                        /\ o.task[1].op = "delete"
                        /\ o.task[1].pc = "settle"
                        /\ o.task[1].mode = "first"
                        /\ o.task[1].i = index
                        /\ o.task[1].j = Len(heap)
                        /\ o.s.heap = heap
    /\ tasks # <<>> /\ tasks[1].op = "delete" /\ tasks[1].pc = "transition" =>
           \A width \in Widths :
               \E o \in {resume(StIn(width), tasks[1])} :
                   IF tasks[1].mode = "first"
                   THEN LET index == tasks[1].i
                            h == SubSeq(Exchanged(heap, index, tasks[1].j), 1, Len(heap) - 1)
                        IN  /\ tasks[1].j = Len(heap)
                            /\ index < Len(heap)
                            /\ o.s.heap = h
                            /\ IF index > 1 /\ Beats(h[index], h[index \div 2], currentHeapType)
                               THEN /\ o.task # <<>>
                                    /\ o.task[1].mode = "up"
                                    /\ o.task[1].i = index \div 2
                                    /\ o.task[1].j = index
                               ELSE \E choice \in {heapifyChoice(o.s, index)} :
                                        IF choice = index
                                        THEN o.task = <<>>
                                        ELSE /\ o.task # <<>>
                                             /\ o.task[1].mode = "down"
                                             /\ o.task[1].i = index
                                             /\ o.task[1].j = choice
                   ELSE o.task = <<>> \/ o.task[1].mode = tasks[1].mode

\* a deletion put the last key in a slot under a parent on the wrong side
\* of it, and is at the first pause of the swap that lifts the key
DeleteRestoresOneWayWitness ==
    /\ tasks # <<>>
    /\ tasks[1].op = "delete"
    /\ tasks[1].pc = "settle"
    /\ tasks[1].mode = "up"
    /\ tasks[1].index > 1
    /\ tasks[1].j = tasks[1].index

\* C20: the storage (its slots, its length, and which heap is current)
\* changes only under the busy flag: every write is made with the flag
\* set, so after the operation set it and before the operation cleared it;
\* one operation at most is in flight, and it is in flight exactly while
\* the flag is set; a step that changes the storage is the step that starts
\* an operation from the idle page, or a run of the one operation in flight.
StorageOwnedByFlagHolder ==
    /\ [](/\ owned
          /\ Len(tasks) <= 1
          /\ isAnimating <=> tasks # <<>>)
    /\ [][heap' # heap \/ currentHeapType' # currentHeapType =>
              IF isAnimating
              THEN /\ TimerStep
                   /\ tasks' = <<>> \/ tasks'[1].op = tasks[1].op
              ELSE /\ tasks = <<>>
                   /\ isAnimating' <=> tasks' # <<>>
         ]_vars

\* a deletion swapped the slot with the last one, dropped the last slot
\* and is at the first pause of a swap of its sift-down
StorageOwnedByFlagHolderWitness ==
    /\ isAnimating
    /\ owned
    /\ tasks # <<>>
    /\ tasks[1].op = "delete"
    /\ tasks[1].pc = "settle"
    /\ tasks[1].mode = "down"
    /\ Len(heap) + 1 = Len(tasks[1].pre)

\* every slot of the storage h has its node in ns, and the node with id k
\* shows h[k] and is titled k
NodesMatch(h, ns) ==
    \A k \in 1..Len(h) :
        /\ k \in DOMAIN ns
        /\ ns[k].text = h[k]
        /\ ns[k].title = k

\* C21: the nodes follow the indices: when a swap has made its last step,
\* and whenever no operation is in flight, the node with id k shows
\* storage[k] for every k in 1..size; whenever no operation is in flight no
\* node has an id above size.  (Between the swaps nothing is written to a
\* slot in use, so the same holds at every pause.)
NodesFollowIndices ==
    /\ NodesMatch(heap, nodes)
    /\ tasks # <<>> /\ tasks[1].pc = "transition" =>
           \A width \in Widths :
               \E s1 \in {swapCommit(StIn(width), tasks[1])} :
                   /\ s1.heap = Exchanged(heap, tasks[1].i, tasks[1].j)
                   /\ NodesMatch(s1.heap, s1.nodes)
    /\ ~isAnimating => DOMAIN nodes \subseteq 1..Len(heap)

\* an operation completed a swap of two different keys, on a page laid out
\* before the swap, and is at the first pause of its next swap
NodesFollowIndicesWitness ==
    /\ tasks # <<>>
    /\ tasks[1].pc = "settle"
    /\ \E k \in 1..Len(steps) : steps[k].op = "relabel"
    /\ heap[tasks[1].i] # heap[tasks[1].j]
    /\ NodesMatch(heap, nodes)

\* the highlight classes an operation adds to a node
OperationHighlights == {"insert", "swap", "extract"}

\* C22: every highlight an operation made is cleared before the operation
\* ends: whenever no operation is in flight, no node carries an insert, swap
\* or extract highlight, the root after an extraction whose sift-down made
\* no swap included.  The program does not keep this: extract() highlights
\* node 1 and never clears it, renderNodes keeps the classes of a node it
\* reuses, and only a swap that involves slot 1 clears them.
NoHighlightWhenIdle ==
    ~isAnimating => \A k \in DOMAIN nodes : nodes[k].hl \cap OperationHighlights = {}

\* what the program does keep: when no operation is in flight, a highlight
\* that is left is the extract highlight, and it is on node 1
OnlyExtractHighlightStays ==
    ~isAnimating =>
        \A k \in DOMAIN nodes :
            /\ nodes[k].hl \cap OperationHighlights \subseteq {"extract"}
            /\ nodes[k].hl \cap OperationHighlights # {} => k = 1

\* the state in which the operation that made the outcome o ends, every
\* pause of it having ended in turn
RECURSIVE RunToEnd(_)
RunToEnd(o) == IF o.task = <<>> THEN o.s ELSE RunToEnd(resume(o.s, o.task[1]))

\* C23: on a heap in heap order that holds a key, deleteAtIndex(1) and
\* extract() do the same to the data: called on the same storage of the same
\* variant, both return the root, and they leave the same storage, slot for
\* slot.
DeleteRootIsExtract ==
    tasks = <<>> /\ heap # <<>> /\ HeapOrdered(heap, currentHeapType) =>
        \A width \in Widths :
            \E e \in {RunToEnd(ExtractCall(width))}, d \in {RunToEnd(DeleteCall(1, width))} :
                /\ e.result = Result("extract", Number(heap[1]))
                /\ d.result = Result("delete", DeleteOk(heap[1]))
                /\ d.heap = e.heap
                /\ Len(e.heap) = Len(heap) - 1
                /\ d.currentHeapType = e.currentHeapType
                /\ ~d.isAnimating /\ ~e.isAnimating

\* a direct deleteAtIndex(1) on a heap of three keys or more dropped the
\* last slot and is at the first pause of a swap of its sift-down
DeleteRootIsExtractWitness ==
    /\ tasks # <<>>
    /\ tasks[1].op = "delete"
    /\ ~tasks[1].ui
    /\ tasks[1].index = 1
    /\ tasks[1].pc = "settle"
    /\ tasks[1].mode = "down"
    /\ HeapOrdered(tasks[1].pre, tasks[1].preType)
    /\ Len(tasks[1].pre) >= 3

====
